---- MODULE Spec2Model ----
(***************************************************************************)
(* Model of the RnWmFetchZsdt export/upload pipeline and sync scheduler.   *)
(*                                                                         *)
(*   Spec      BackgroundSyncService.configure / stop against the host     *)
(*             background-execution facility (react-native-background-     *)
(*             fetch): the Unconfigured/Active flag and the host registry. *)
(*   SpecTask  the host firing the registered run and timeout callbacks,   *)
(*             triggerManualSync, DataExportService.exportAndUpload step   *)
(*             by step (one step per await), and insertMockProducts.       *)
(*   FairSpecRun  the periodic path of SpecTask with the fairness of the   *)
(*             event loop: pending promises settle, continuations run.     *)
(*   SpecApp   SpecTask's runs together with uploads to the object store  *)
(*             made while no other run is in flight, on a store that is    *)
(*             not being written.                                          *)
(*   SpecMinio MinioUploadService.compressAndUpload, both versions, two    *)
(*             calls in flight, with the device clock.                     *)
(*   SpecSign  getAwsSignature as a function of its inputs, and the PUT    *)
(*             made with its result.                                       *)
(*   SpecRatio the ratio operation as a function of its two operands.      *)
(*                                                                         *)
(* Every await of the source is a point where other callbacks may run, so  *)
(* each action below is the code between two awaits.  The host, the store, *)
(* the codec and the network are the environment: each answer they can     *)
(* give is a nondeterministic choice.                                      *)
(***************************************************************************)
EXTENDS Integers, Sequences, FiniteSets, TLC

\* ------------------------------------------------------------------ bounds
\* configure() calls each caller makes
MaxCalls == 1
\* stop() calls made
MaxStops == 2
\* periodic invocations of the run callback by the host
MaxRuns == 1

\* ------------------------------------------------------- program constants
BG_SYNC_INTERVAL == 15
BG_COMPRESSION_LEVEL == 3
API_URL == "https://your-api.com/upload"

\* The two places that call BackgroundSyncService.configure.
Callers == {"app", "btn"}

\* The BackgroundTaskConfig each caller passes.
Config(p) ==
  [ apiUrl               |-> API_URL,
    taskId               |-> IF p = "app" THEN "product-sync-auto" ELSE "product-sync",
    minimumFetchInterval |-> BG_SYNC_INTERVAL,
    compressionLevel     |-> BG_COMPRESSION_LEVEL,
    stopOnTerminate      |-> FALSE,
    startOnBoot          |-> TRUE ]

NoConfig ==
  [ apiUrl               |-> "",
    taskId               |-> "",
    minimumFetchInterval |-> 0,
    compressionLevel     |-> 0,
    stopOnTerminate      |-> FALSE,
    startOnBoot          |-> FALSE ]

VARIABLES
  isConfigured,   \* BackgroundSyncService.isConfigured
  cpc,            \* per caller: where its configure() call stands
  cout,           \* per caller: how its last configure() call ended
  ctrace,         \* per caller: what its current/last call did, in order
  ncalls,         \* per caller: configure() calls made
  hostReg,        \* host: the config captured by the registered callbacks
  hostTasks,      \* host: the scheduleTask requests it holds
  regs,           \* host: registrations accepted since its last stop
  spc,            \* where the stop() call stands
  sout,           \* how the last stop() call ended
  nstops,         \* stop() calls returned
  cclean,         \* per caller: no stop() ran since its configure() was called
  okSinceStop     \* a configure() returned normally with no stop() since its call

schedVars ==
  << isConfigured, cpc, cout, ctrace, ncalls, hostReg, hostTasks, regs,
     spc, sout, nstops, cclean, okSinceStop >>

VARIABLES
  store,          \* Record Store: the product records, in fetch order
  ipc,            \* where insertMockProducts stands
  pipe,           \* per runner: its exportAndUpload run (0: manual, r: task r)
  run,            \* per host invocation of the run callback: its state
  mpc,            \* where triggerManualSync stands / how it ended
  codec           \* the codec's gain on the store's JSON

taskVars == << store, ipc, pipe, run, mpc, codec >>

VARIABLES
  minioImpl,    \* which of the two MinioUploadService versions the app is built with
  up,           \* up[u]: the compressAndUpload call u, its locals and result
  clock,        \* the device clock, in ms since 00:00:00.000 UTC of a day 0
  sig,          \* sig[s]: one getAwsSignature computation and the PUT made with it
  calc          \* one use of the ratio operation: operands and result

minioVars == << minioImpl, up, clock, sig, calc >>

vars == << schedVars, taskVars, minioVars >>

\* ------------------------------------------------ BackgroundSyncService

\* One entry of a call's trace.
Ev(op, taskId, delay) == [op |-> op, taskId |-> taskId, delay |-> delay]

\* Variant: the first run is requested one interval late instead of at once.
ScheduleRequestDelayed(config) ==
  [ taskId          |-> config.taskId,
    delay           |-> config.minimumFetchInterval,
    periodic        |-> TRUE,
    stopOnTerminate |-> config.stopOnTerminate,
    startOnBoot     |-> config.startOnBoot ]

\* The options handed to BackgroundFetch.scheduleTask.
ScheduleRequest(config) ==
  [ taskId          |-> config.taskId,
    delay           |-> 0,
    periodic        |-> TRUE,
    stopOnTerminate |-> config.stopOnTerminate,
    startOnBoot     |-> config.startOnBoot ]

\* Variant: configure() without its guard.
AlreadyConfiguredIgnored == FALSE

\* The guard at the top of configure().
AlreadyConfigured == isConfigured

\* configure() up to its first await: the guard, then the registration is
\* handed to the host.
ConfigureCall(p) ==
  /\ cpc[p] = "idle"
  /\ ncalls[p] < MaxCalls
  /\ ncalls' = [ncalls EXCEPT ![p] = @ + 1]
  /\ ctrace' = [ctrace EXCEPT ![p] = << >>]
  /\ IF AlreadyConfigured
       THEN /\ cout' = [cout EXCEPT ![p] = "noop"]
            /\ UNCHANGED cpc
       ELSE /\ cout' = [cout EXCEPT ![p] = "none"]
            /\ cpc' = [cpc EXCEPT ![p] = "awaitConfigure"]
  /\ cclean' = [cclean EXCEPT ![p] = (spc = "idle")]
  /\ UNCHANGED << isConfigured, hostReg, hostTasks, regs, spc, sout, nstops,
                  okSinceStop >>
  /\ UNCHANGED << taskVars, minioVars >>

\* BackgroundFetch.configure resolved: the host holds the callbacks of this
\* call; the continuation sets the flag and hands the host the scheduleTask
\* request.
ConfigureRegistered(p) ==
  /\ cpc[p] = "awaitConfigure"
  /\ hostReg' = Config(p)
  /\ regs' = regs + 1
  /\ isConfigured' = TRUE
  /\ ctrace' = [ctrace EXCEPT ![p] =
         << Ev("configure", "", 0),
            Ev("isConfigured", "", 0),
            Ev("scheduleTask", ScheduleRequest(Config(p)).taskId,
                               ScheduleRequest(Config(p)).delay) >>]
  /\ cpc' = [cpc EXCEPT ![p] = "awaitSchedule"]
  /\ UNCHANGED << cout, ncalls, hostTasks, spc, sout, nstops, cclean,
                  okSinceStop >>
  /\ UNCHANGED << taskVars, minioVars >>

\* BackgroundFetch.configure rejected: logged and re-thrown.
ConfigureRejected(p) ==
  /\ cpc[p] = "awaitConfigure"
  /\ cpc' = [cpc EXCEPT ![p] = "idle"]
  /\ cout' = [cout EXCEPT ![p] = "threw"]
  /\ UNCHANGED << isConfigured, ctrace, ncalls, hostReg, hostTasks, regs,
                  spc, sout, nstops, cclean, okSinceStop >>
  /\ UNCHANGED << taskVars, minioVars >>

\* BackgroundFetch.scheduleTask resolved: the host holds the task; configure
\* returns.
ConfigureScheduled(p) ==
  /\ cpc[p] = "awaitSchedule"
  /\ hostTasks' = hostTasks \cup {ScheduleRequest(Config(p))}
  /\ cpc' = [cpc EXCEPT ![p] = "idle"]
  /\ cout' = [cout EXCEPT ![p] = "ok"]
  /\ okSinceStop' = (okSinceStop \/ cclean[p])
  /\ UNCHANGED << isConfigured, ctrace, ncalls, hostReg, regs, spc, sout,
                  nstops, cclean >>
  /\ UNCHANGED << taskVars, minioVars >>

\* BackgroundFetch.scheduleTask rejected: logged and re-thrown; the flag
\* keeps the value it has.
ConfigureScheduleRejected(p) ==
  /\ cpc[p] = "awaitSchedule"
  /\ cpc' = [cpc EXCEPT ![p] = "idle"]
  /\ cout' = [cout EXCEPT ![p] = "threw"]
  /\ UNCHANGED << isConfigured, ctrace, ncalls, hostReg, hostTasks, regs,
                  spc, sout, nstops, cclean, okSinceStop >>
  /\ UNCHANGED << taskVars, minioVars >>

\* How stop() ends, given whether BackgroundFetch.stop resolved.
StopOutcome(hostOk) == IF hostOk THEN "stopped" ELSE "logged"

\* Variant: stop() forgets to clear the flag.
StopFlagKept(hostOk, flag) == flag

\* The flag after stop(), given whether BackgroundFetch.stop resolved.
StopFlag(hostOk, flag) == IF hostOk THEN FALSE ELSE flag

\* stop() up to its await.
StopCall ==
  /\ spc = "idle"
  /\ nstops < MaxStops
  /\ spc' = "awaitStop"
  /\ okSinceStop' = FALSE
  /\ cclean' = [p \in Callers |-> FALSE]
  /\ UNCHANGED << isConfigured, cpc, cout, ctrace, ncalls, hostReg,
                  hostTasks, regs, sout, nstops >>
  /\ UNCHANGED << taskVars, minioVars >>

\* BackgroundFetch.stop resolved: the host dropped the callbacks and every
\* scheduled task; the flag is cleared.
StopResolved ==
  /\ spc = "awaitStop"
  /\ hostReg' = NoConfig
  /\ hostTasks' = {}
  /\ regs' = 0
  /\ isConfigured' = StopFlag(TRUE, isConfigured)
  /\ sout' = StopOutcome(TRUE)
  /\ spc' = "idle"
  /\ nstops' = nstops + 1
  /\ UNCHANGED << cpc, cout, ctrace, ncalls, cclean, okSinceStop >>
  /\ UNCHANGED << taskVars, minioVars >>

\* BackgroundFetch.stop rejected: the catch logs, nothing else changes.
StopRejected ==
  /\ spc = "awaitStop"
  /\ isConfigured' = StopFlag(FALSE, isConfigured)
  /\ sout' = StopOutcome(FALSE)
  /\ spc' = "idle"
  /\ nstops' = nstops + 1
  /\ UNCHANGED << cpc, cout, ctrace, ncalls, hostReg, hostTasks, regs,
                  cclean, okSinceStop >>
  /\ UNCHANGED << taskVars, minioVars >>

\* The state when the app process starts.
InitSched ==
  /\ isConfigured = FALSE
  /\ cpc = [p \in Callers |-> "idle"]
  /\ cout = [p \in Callers |-> "none"]
  /\ ctrace = [p \in Callers |-> << >>]
  /\ ncalls = [p \in Callers |-> 0]
  /\ hostReg = NoConfig
  /\ hostTasks = {}
  /\ regs = 0
  /\ spc = "idle"
  /\ sout = "none"
  /\ nstops = 0
  /\ cclean = [p \in Callers |-> FALSE]
  /\ okSinceStop = FALSE

\* --------------------------------------------------------- Record Store

\* The ids of the three records insertMockProducts creates.
MockIds == << 1, 2, 3 >>

\* Byte length of JSON.stringify of one mock record's field tuple (16-char
\* store id, ISO timestamps); the third product name is 3 bytes shorter.
RecordJsonLen(i) == IF i = 3 THEN 223 ELSE 226

RECURSIVE SumJsonLen(_)
SumJsonLen(recs) ==
  IF recs = << >> THEN 0
  ELSE RecordJsonLen(Head(recs)) + SumJsonLen(Tail(recs))

\* Variant: the size of the records and commas only, without the brackets.
JsonSizeRecordsOnly(recs) ==
  SumJsonLen(recs) + (IF Len(recs) > 0 THEN Len(recs) - 1 ELSE 0)

\* new Blob([JSON.stringify(productsData)]).size: brackets, records, commas.
JsonSize(recs) ==
  2 + SumJsonLen(recs) + (IF Len(recs) > 0 THEN Len(recs) - 1 ELSE 0)

\* insertMockProducts: the count query resolved (or threw, which App logs).
InsertCount ==
  /\ ipc = "idle"
  /\ \/ ipc' = (IF Len(store) > 0 THEN "done" ELSE "write")
     \/ ipc' = "done"
  /\ UNCHANGED << minioVars, schedVars, store, pipe, run, mpc, codec >>

\* insertMockProducts: the batch write committed (or threw).
InsertWrite ==
  /\ ipc = "write"
  /\ \/ store' = store \o MockIds /\ ipc' = "done"
     \/ store' = store /\ ipc' = "done"
  /\ UNCHANGED << minioVars, schedVars, pipe, run, mpc, codec >>

\* ---------------------------------------------------- DataExportService

Runners == 0 .. MaxRuns
Manual == 0
RunIds == 1 .. MaxRuns

\* compressionRatio values: exact fractions num/den.
Rat(num, den) == [num |-> num, den |-> den]
RatZero == Rat(0, 1)

\* What the endpoint can answer to the POST.
HttpResponses ==
  { [status |-> 200, body |-> "json"],
    [status |-> 200, body |-> "empty"],
    [status |-> 204, body |-> "empty"],
    [status |-> 500, body |-> "json"] }
NoResponse == [status |-> 0, body |-> "none"]

\* response.ok
ResponseOk(resp) == resp.status >= 200 /\ resp.status <= 299

\* response.json() resolves only for a body that is JSON text.
JsonParses(resp) == resp.body = "json"

\* Length of the base64 text of k bytes (Base64.NO_WRAP).
B64Len(k) == 4 * ((k + 2) \div 3)

\* How well the codec does on this store's JSON: it is a deterministic
\* function of its input and level, fixed for a run of the app; the input is
\* stored as it is or shrinks to a third.
CodecGains == { 1, 3 }

\* Byte length of the frame the codec produces for an input of n bytes: a
\* frame header plus the block.
CodecOutLen(n) == n \div codec + 9

\* ZstdModule.getCompressionRatio
CompressionRatio(originalSize, compressedSize) ==
  Rat(compressedSize * 100, originalSize)

\* Variant: the catch block throws a new error that names no cause.
ExportErrorOpaque(cause) == "Export failed"

\* exportProductsToZstd's catch block: `Export failed: ${error}`.
ExportError(cause) == "Export failed: " \o cause

\* compressProductsToZstd's catch block: `Compression failed: ${error}`.
CompressionError(cause) == "Compression failed: " \o cause

NoResult ==
  [ raised |-> FALSE, success |-> FALSE, compressedSize |-> 0,
    originalSize |-> 0, compressionRatio |-> RatZero, recordCount |-> 0,
    error |-> "none" ]

\* Variant: exportAndUpload's catch block re-throws.
ExportFailureRethrown(msg) ==
  [ raised |-> TRUE, success |-> FALSE, compressedSize |-> 0,
    originalSize |-> 0, compressionRatio |-> RatZero, recordCount |-> 0,
    error |-> msg ]

\* The object exportAndUpload's catch block returns.
ExportFailure(msg) ==
  [ raised |-> FALSE, success |-> FALSE, compressedSize |-> 0,
    originalSize |-> 0, compressionRatio |-> RatZero, recordCount |-> 0,
    error |-> msg ]

\* The object exportAndUpload returns at the end of its try block.
ExportSuccess(p, count) ==
  [ raised |-> FALSE, success |-> TRUE, compressedSize |-> p.csize,
    originalSize |-> p.osize, compressionRatio |-> p.ratio,
    recordCount |-> count, error |-> "" ]

IdlePipe ==
  [ pc |-> "idle", snap |-> 0, osize |-> 0, csize |-> 0, ratio |-> RatZero,
    resp |-> NoResponse, failedAt |-> "none", starts |-> 0, reads |-> 0,
    comps |-> 0, posts |-> 0, res |-> NoResult ]

\* exportAndUpload is entered: exportProductsToZstd issues the store read.
StartPipe(p) ==
  [ IdlePipe EXCEPT !.pc = "fetch", !.starts = p.starts + 1, !.reads = 1 ]

\* A step of the try block threw: the catch block builds the result.
Failed(p, step, msg) ==
  [ IdlePipe EXCEPT !.pc = "done", !.failedAt = step, !.snap = p.snap,
                    !.resp = p.resp, !.starts = p.starts, !.reads = p.reads,
                    !.comps = p.comps, !.posts = p.posts,
                    !.res = ExportFailure(msg) ]

\* The caller took the result: the call's frame is gone.
Returned(p) == [ IdlePipe EXCEPT !.starts = p.starts ]

\* Variant: the records that were read are removed from the store.
ExportFetchConsumes(r) ==
  /\ pipe[r].pc = "fetch"
  /\ \/ /\ pipe' = [pipe EXCEPT ![r] =
                      [ @ EXCEPT !.pc = "compress", !.snap = Len(store),
                                 !.osize = JsonSize(store), !.comps = 1 ]]
        /\ store' = << >>
     \/ /\ pipe' = [pipe EXCEPT ![r] =
                      Failed(@, "fetch", ExportError("StoreReadError"))]
        /\ store' = store
  /\ UNCHANGED << minioVars, schedVars, ipc, run, mpc, codec >>

\* exportProductsToZstd: the store read resolved; the snapshot is serialized
\* and handed to the codec.
ExportFetch(r) ==
  /\ pipe[r].pc = "fetch"
  /\ \/ pipe' = [pipe EXCEPT ![r] =
                   [ @ EXCEPT !.pc = "compress", !.snap = Len(store),
                              !.osize = JsonSize(store), !.comps = 1 ]]
     \/ pipe' = [pipe EXCEPT ![r] =
                   Failed(@, "fetch", ExportError("StoreReadError"))]
  /\ UNCHANGED << minioVars, schedVars, store, ipc, run, mpc, codec >>

\* exportProductsToZstd: compressString resolved; exportAndUpload measures
\* the base64 text and asks the codec module for the ratio.
ExportCompress(r) ==
  /\ pipe[r].pc = "compress"
  /\ \/ pipe' = [pipe EXCEPT ![r] =
                   [ @ EXCEPT !.pc = "ratio",
                              !.csize = B64Len(CodecOutLen(pipe[r].osize)) ]]
     \/ pipe' = [pipe EXCEPT ![r] =
                   Failed(@, "compress", ExportError("CodecError"))]
  /\ UNCHANGED << minioVars, schedVars, store, ipc, run, mpc, codec >>

\* getCompressionRatio resolved; sendToExternalAPI asks NetInfo.
ExportRatio(r) ==
  /\ pipe[r].pc = "ratio"
  /\ \/ pipe' = [pipe EXCEPT ![r] =
                   [ @ EXCEPT !.pc = "net",
                       !.ratio = CompressionRatio(pipe[r].osize, pipe[r].csize) ]]
     \/ pipe' = [pipe EXCEPT ![r] =
                   Failed(@, "ratio", "Failed to calculate ratio")]
  /\ UNCHANGED << minioVars, schedVars, store, ipc, run, mpc, codec >>

\* Variant: the POST is issued before the answer of NetInfo is looked at.
ExportNetPostsFirst(r) ==
  /\ pipe[r].pc = "net"
  /\ \/ pipe' = [pipe EXCEPT ![r] = [ @ EXCEPT !.pc = "post", !.posts = 1 ]]
     \/ pipe' = [pipe EXCEPT ![r] =
                   Failed([ @ EXCEPT !.posts = 1 ], "net",
                          "API send failed: No network connection")]
     \/ pipe' = [pipe EXCEPT ![r] =
                   Failed(@, "net", "API send failed: NetInfoError")]
  /\ UNCHANGED << minioVars, schedVars, store, ipc, run, mpc, codec >>

\* sendToExternalAPI: NetInfo.fetch resolved; when connected the POST is
\* issued.
ExportNet(r) ==
  /\ pipe[r].pc = "net"
  /\ \/ pipe' = [pipe EXCEPT ![r] = [ @ EXCEPT !.pc = "post", !.posts = 1 ]]
     \/ pipe' = [pipe EXCEPT ![r] =
                   Failed(@, "net", "API send failed: No network connection")]
     \/ pipe' = [pipe EXCEPT ![r] =
                   Failed(@, "net", "API send failed: NetInfoError")]
  /\ UNCHANGED << minioVars, schedVars, store, ipc, run, mpc, codec >>

\* Variant: a POST that was answered with an error status is sent once more.
ExportPostRetries(r) ==
  /\ pipe[r].pc = "post"
  /\ \/ \E resp \in HttpResponses :
          pipe' = [pipe EXCEPT ![r] =
            IF ResponseOk(resp)
              THEN [ @ EXCEPT !.pc = "json", !.resp = resp ]
              ELSE IF pipe[r].posts = 1
                THEN [ @ EXCEPT !.posts = 2 ]
                ELSE [ Failed(@, "post", "API send failed: HTTP error! status")
                         EXCEPT !.resp = resp ]]
     \/ pipe' = [pipe EXCEPT ![r] =
                   Failed(@, "post", "API send failed: Network request failed")]
  /\ UNCHANGED << minioVars, schedVars, store, ipc, run, mpc, codec >>

\* sendToExternalAPI: the POST resolved with a response, or rejected.
ExportPost(r) ==
  /\ pipe[r].pc = "post"
  /\ \/ \E resp \in HttpResponses :
          pipe' = [pipe EXCEPT ![r] =
            IF ResponseOk(resp)
              THEN [ @ EXCEPT !.pc = "json", !.resp = resp ]
              ELSE [ Failed(@, "post", "API send failed: HTTP error! status")
                       EXCEPT !.resp = resp ]]
     \/ pipe' = [pipe EXCEPT ![r] =
                   Failed(@, "post", "API send failed: Network request failed")]
  /\ UNCHANGED << minioVars, schedVars, store, ipc, run, mpc, codec >>

\* sendToExternalAPI: response.json() settled; exportAndUpload issues the
\* second store read.
ExportJson(r) ==
  /\ pipe[r].pc = "json"
  /\ pipe' = [pipe EXCEPT ![r] =
       IF JsonParses(@.resp)
         THEN [ @ EXCEPT !.pc = "recount", !.reads = 2 ]
         ELSE Failed(@, "json", "API send failed: JSON Parse error")]
  /\ UNCHANGED << minioVars, schedVars, store, ipc, run, mpc, codec >>

\* exportAndUpload: the second store read resolved; the result is returned.
ExportRecount(r) ==
  /\ pipe[r].pc = "recount"
  /\ \/ pipe' = [pipe EXCEPT ![r] =
                   [ @ EXCEPT !.pc = "done", !.osize = 0, !.csize = 0,
                              !.ratio = RatZero,
                              !.res = ExportSuccess(pipe[r], Len(store)) ]]
     \/ pipe' = [pipe EXCEPT ![r] = Failed(@, "recount", "StoreReadError")]
  /\ UNCHANGED << minioVars, schedVars, store, ipc, run, mpc, codec >>

\* ------------------------------------------- periodic and manual callers

\* Task ids the host invokes the run callback with: the scheduled tasks.
HostTaskIds == { t.taskId : t \in hostTasks }

IdleRun ==
  [ cb |-> "idle", taskId |-> "", signals |-> << >>, saw |-> "none" ]

\* How exportAndUpload settled, as its caller sees it.
Settled(res) ==
  IF res.raised THEN "raised" ELSE IF res.success THEN "success" ELSE "failure"

\* The host has invoked the timeout callback for this invocation.
TimedOut(rn) == \E i \in 1 .. Len(rn.signals) : rn.signals[i] = "timeout"

\* Variant: finish is called inside the success branch only.
OnRunFinishOnSuccessOnly(res) ==
  [ finish |-> res.success, outcome |-> "returned" ]

\* Variant: a failed export is thrown on, as triggerManualSync does.
OnRunRethrows(res) ==
  IF res.raised \/ ~res.success
    THEN [ finish |-> FALSE, outcome |-> "threw" ]
    ELSE [ finish |-> TRUE, outcome |-> "returned" ]

\* What the run callback does once exportAndUpload has settled with res:
\* its try/catch swallows every outcome, then it calls BackgroundFetch.finish
\* and returns.
OnRun(res) == [ finish |-> TRUE, outcome |-> "returned" ]

\* The host invokes the run callback, once every earlier invocation has been
\* signalled finished to it: the callback logs and enters exportAndUpload.
TaskFire(r) ==
  /\ hostReg # NoConfig
  /\ run[r].cb = "idle"
  /\ \A q \in RunIds : q < r => run[q].signals # << >>
  /\ \E t \in HostTaskIds :
       run' = [run EXCEPT ![r] = [ IdleRun EXCEPT !.cb = "running", !.taskId = t ]]
  /\ pipe' = [pipe EXCEPT ![r] = StartPipe(@)]
  /\ UNCHANGED << minioVars, schedVars, store, ipc, mpc, codec >>

\* exportAndUpload settled: the run callback logs, finishes and returns.
TaskResume(r) ==
  /\ run[r].cb = "running"
  /\ pipe[r].pc = "done"
  /\ run' = [run EXCEPT ![r] =
       [ @ EXCEPT !.cb = OnRun(pipe[r].res).outcome,
                  !.saw = Settled(pipe[r].res),
                  !.signals = IF OnRun(pipe[r].res).finish
                                THEN Append(@, "run") ELSE @ ]]
  /\ pipe' = [pipe EXCEPT ![r] = Returned(@)]
  /\ UNCHANGED << minioVars, schedVars, store, ipc, mpc, codec >>

\* Variant: the timeout callback also abandons the pipeline run in flight.
TaskTimeoutAborts(r) ==
  /\ run[r].cb = "running"
  /\ ~TimedOut(run[r])
  /\ run' = [run EXCEPT ![r] = [ @ EXCEPT !.signals = Append(@, "timeout") ]]
  /\ pipe' = [pipe EXCEPT ![r] =
       IF @.pc = "done" THEN @ ELSE Failed(@, "timeout", "Aborted")]
  /\ UNCHANGED << minioVars, schedVars, store, ipc, mpc, codec >>

\* The host invokes the timeout callback for a task still running: it logs
\* and calls BackgroundFetch.finish.
TaskTimeout(r) ==
  /\ run[r].cb = "running"
  /\ ~TimedOut(run[r])
  /\ run' = [run EXCEPT ![r] = [ @ EXCEPT !.signals = Append(@, "timeout") ]]
  /\ UNCHANGED << minioVars, schedVars, store, ipc, pipe, mpc, codec >>

\* Variant: triggerManualSync only logs a failure, as the run callback does.
ManualOutcomeSwallows(res) == "returned"

\* How triggerManualSync ends once exportAndUpload has settled with res.
ManualOutcome(res) ==
  IF res.raised \/ ~res.success THEN "threw" ELSE "returned"

\* triggerManualSync is called: it logs and enters exportAndUpload.
ManualCall ==
  /\ mpc = "idle"
  /\ mpc' = "running"
  /\ pipe' = [pipe EXCEPT ![Manual] = StartPipe(@)]
  /\ UNCHANGED << minioVars, schedVars, store, ipc, run, codec >>

\* exportAndUpload settled: triggerManualSync logs and returns or throws.
ManualResume ==
  /\ mpc = "running"
  /\ pipe[Manual].pc = "done"
  /\ mpc' = ManualOutcome(pipe[Manual].res)
  /\ pipe' = [pipe EXCEPT ![Manual] = Returned(@)]
  /\ UNCHANGED << minioVars, schedVars, store, ipc, run, codec >>

\* --------------------------------------------------- MinioUploadService

\* The two compressAndUpload calls that can be in flight together.
Uploads == { "first", "second" }

\* The repository holds two versions of the service: one authenticates the
\* PUT with Basic credentials, one with an AWS Signature V4.
Impls == { "basic", "sigv4" }

MsPerDay == 86400000

\* The clock when the model starts: the last millisecond of day 0.
ClockStart == MsPerDay - 1

\* How many milliseconds the clock is followed for.
MaxTicks == 2

\* Date.toISOString: the fields of YYYY-MM-DDTHH:mm:ss.sssZ, each printed
\* with a fixed number of digits; the date is kept as its day number.
IsoFields(t) ==
  << t \div MsPerDay, (t \div 3600000) % 24, (t \div 60000) % 60,
     (t \div 1000) % 60, t % 1000 >>

\* Order of two texts with the same layout of fixed-width numeric fields:
\* the order of the first field that differs.
RECURSIVE LexLess(_, _)
LexLess(a, b) ==
  IF a = << >> \/ b = << >> THEN FALSE
  ELSE IF Head(a) # Head(b) THEN Head(a) < Head(b)
  ELSE LexLess(Tail(a), Tail(b))

NoName == [ prefix |-> "", stamp |-> << >>, ext |-> "" ]

\* generateFileName at clock time t: replacing ':' and '.' by '-' keeps every
\* digit of the ISO text.
GenerateFileName(t) ==
  [ prefix |-> "products-", stamp |-> IsoFields(t), ext |-> ".zstd" ]

\* What the object store can answer to the PUT.
PutResponses ==
  { [status |-> 200, body |-> "none"], [status |-> 403, body |-> "xml"] }

\* compressAndUpload's inline (compressedSize / originalSize) * 100.
UploadRatio(originalSize, compressedSize) ==
  Rat(compressedSize * 100, originalSize)

\* An UploadResult; fields names the keys the object has.
NoUpload ==
  [ raised |-> FALSE, success |-> FALSE, fields |-> {}, fileName |-> NoName,
    size |-> 0, error |-> "none", recordCount |-> 0,
    compressionRatio |-> RatZero ]

\* Variant: the catch block throws the error on.
UploadFailureRethrown(msg) ==
  [ NoUpload EXCEPT !.raised = TRUE, !.fields = {"error"}, !.error = msg ]

\* The object the catch blocks of uploadToMinio and compressAndUpload return.
UploadFailure(msg) ==
  [ NoUpload EXCEPT !.fields = {"success", "error"}, !.error = msg ]

\* The object uploadToMinio returns after a 2xx answer.
UploadSuccess(fileName, size) ==
  [ NoUpload EXCEPT !.success = TRUE,
                    !.fields = {"success", "url", "fileName", "size"},
                    !.fileName = fileName, !.size = size ]

\* The object compressAndUpload returns at the end of its try block.
UploadComplete(uploadResult, count, ratio) ==
  [ uploadResult EXCEPT !.fields = @ \cup {"recordCount", "compressionRatio"},
                        !.recordCount = count, !.compressionRatio = ratio ]

IdleUp ==
  [ pc |-> "idle", snap |-> 0, osize |-> 0, size |-> 0, fileName |-> NoName,
    reads |-> 0, comps |-> 0, puts |-> 0, resp |-> NoResponse,
    failedAt |-> "none", res |-> NoUpload ]

\* A step of compressAndUpload or uploadToMinio threw: a catch block builds
\* the result and compressAndUpload returns it.
UploadFailed(p, step, msg) ==
  [ IdleUp EXCEPT !.pc = "done", !.failedAt = step, !.resp = p.resp,
                  !.reads = p.reads, !.comps = p.comps, !.puts = p.puts,
                  !.res = UploadFailure(msg) ]

\* handleMinioUpload calls compressAndUpload: compressProductsToZstd issues
\* the store read.
MinioCall(u) ==
  /\ up[u].pc = "idle"
  /\ up' = [up EXCEPT ![u] = [ IdleUp EXCEPT !.pc = "fetch", !.reads = 1 ]]
  /\ UNCHANGED << schedVars, taskVars, minioImpl, clock, sig, calc >>

\* compressProductsToZstd: the store read resolved; the snapshot is
\* serialized and handed to the codec.
MinioFetch(u) ==
  /\ up[u].pc = "fetch"
  /\ \/ up' = [up EXCEPT ![u] =
                 [ @ EXCEPT !.pc = "compress", !.snap = Len(store),
                            !.osize = JsonSize(store), !.comps = 1 ]]
     \/ up' = [up EXCEPT ![u] =
                 UploadFailed(@, "fetch", CompressionError("StoreReadError"))]
  /\ UNCHANGED << schedVars, taskVars, minioImpl, clock, sig, calc >>

\* compressProductsToZstd returned: compressAndUpload names the file and
\* enters uploadToMinio, which decodes the base64 text and issues the signed
\* PUT (SigV4 version) or asks fetch for the data URI (Basic version).
MinioCompress(u) ==
  /\ up[u].pc = "compress"
  /\ \/ up' = [up EXCEPT ![u] =
                 [ @ EXCEPT !.pc = IF minioImpl = "sigv4" THEN "put"
                                                          ELSE "datauri",
                            !.puts = IF minioImpl = "sigv4" THEN 1 ELSE 0,
                            !.size = CodecOutLen(up[u].osize),
                            !.fileName = GenerateFileName(clock) ]]
     \/ up' = [up EXCEPT ![u] =
                 UploadFailed(@, "compress", CompressionError("CodecError"))]
  /\ UNCHANGED << schedVars, taskVars, minioImpl, clock, sig, calc >>

\* uploadToMinio (Basic): the fetch of the data URI resolved.
MinioDataUri(u) ==
  /\ up[u].pc = "datauri"
  /\ \/ up' = [up EXCEPT ![u] = [ @ EXCEPT !.pc = "blob" ]]
     \/ up' = [up EXCEPT ![u] =
                 UploadFailed(@, "datauri", "Network request failed")]
  /\ UNCHANGED << schedVars, taskVars, minioImpl, clock, sig, calc >>

\* uploadToMinio (Basic): response.blob() resolved; the PUT is issued.
MinioBlob(u) ==
  /\ up[u].pc = "blob"
  /\ \/ up' = [up EXCEPT ![u] = [ @ EXCEPT !.pc = "put", !.puts = 1 ]]
     \/ up' = [up EXCEPT ![u] = UploadFailed(@, "blob", "BlobError")]
  /\ UNCHANGED << schedVars, taskVars, minioImpl, clock, sig, calc >>

\* uploadToMinio: the PUT resolved with a response, or rejected. After a 2xx
\* answer compressAndUpload computes the ratio and issues the second store
\* read; after another answer the SigV4 version reads the response text.
MinioPut(u) ==
  /\ up[u].pc = "put"
  /\ \/ \E resp \in PutResponses :
          up' = [up EXCEPT ![u] =
            IF ResponseOk(resp)
              THEN [ @ EXCEPT !.pc = "recount", !.resp = resp, !.reads = 2,
                       !.res = UploadSuccess(up[u].fileName, up[u].size) ]
              ELSE IF minioImpl = "sigv4"
                THEN [ @ EXCEPT !.pc = "text", !.resp = resp ]
                ELSE [ UploadFailed(@, "put", "Upload failed: status")
                         EXCEPT !.resp = resp ]]
     \/ up' = [up EXCEPT ![u] =
                 UploadFailed(@, "put", "Network request failed")]
  /\ UNCHANGED << schedVars, taskVars, minioImpl, clock, sig, calc >>

\* uploadToMinio (SigV4): uploadResponse.text() settled; the error is thrown
\* and caught.
MinioText(u) ==
  /\ up[u].pc = "text"
  /\ \/ up' = [up EXCEPT ![u] = UploadFailed(@, "put", "Upload failed: status")]
     \/ up' = [up EXCEPT ![u] = UploadFailed(@, "put", "TextReadError")]
  /\ UNCHANGED << schedVars, taskVars, minioImpl, clock, sig, calc >>

\* compressAndUpload: the second store read resolved; the result is returned.
MinioRecount(u) ==
  /\ up[u].pc = "recount"
  /\ \/ up' = [up EXCEPT ![u] =
                 [ @ EXCEPT !.pc = "done", !.osize = 0, !.size = 0,
                     !.res = UploadComplete(up[u].res, Len(store),
                               UploadRatio(up[u].osize, up[u].res.size)) ]]
     \/ up' = [up EXCEPT ![u] = UploadFailed(@, "recount", "StoreReadError")]
  /\ UNCHANGED << schedVars, taskVars, minioImpl, clock, sig, calc >>

\* handleMinioUpload took the result, showed it and cleared its busy flag.
MinioReturn(u) ==
  /\ up[u].pc = "done"
  /\ up' = [up EXCEPT ![u] = IdleUp]
  /\ UNCHANGED << schedVars, taskVars, minioImpl, clock, sig, calc >>

\* A millisecond passes.
Tick ==
  /\ clock < ClockStart + MaxTicks
  /\ clock' = clock + 1
  /\ UNCHANGED << schedVars, taskVars, minioImpl, up, sig, calc >>

\* ------------------------------------------------- AWS Signature V4

\* The two signature computations that are compared.
Signers == { "one", "two" }

\* Header names are texts, kept as their sequences of UTF-16 code units.
\* 'Host'
Host == << 72, 111, 115, 116 >>
\* 'Content-Type'
ContentType ==
  << 67, 111, 110, 116, 101, 110, 116, 45, 84, 121, 112, 101 >>
\* 'content-type'
ContentTypeLower ==
  << 99, 111, 110, 116, 101, 110, 116, 45, 116, 121, 112, 101 >>
\* 'x-amz-acl'
XAmzAcl == << 120, 45, 97, 109, 122, 45, 97, 99, 108 >>
\* 'x-amz-date'
XAmzDate == << 120, 45, 97, 109, 122, 45, 100, 97, 116, 101 >>
\* 'x-amz-content-sha256'
XAmzContentSha256 ==
  << 120, 45, 97, 109, 122, 45, 99, 111, 110, 116, 101, 110, 116, 45, 115, 104, 97, 50, 53, 54 >>
\* 'Authorization'
Authorization ==
  << 65, 117, 116, 104, 111, 114, 105, 122, 97, 116, 105, 111, 110 >>

\* A header value: a text with some blanks before and after it.
Val(pre, text, post) == [ pre |-> pre, text |-> text, post |-> post ]

\* String.prototype.trim
Trim(v) == Val(0, v.text, 0)

\* String.prototype.toLowerCase on a name of ASCII letters.
ToLowerCase(name) ==
  [ i \in 1 .. Len(name) |->
      IF name[i] >= 65 /\ name[i] <= 90 THEN name[i] + 32 ELSE name[i] ]

\* The order Array.prototype.sort puts two different strings in when it has
\* no comparator: by code unit, a proper prefix first.
RECURSIVE CodeLess(_, _)
CodeLess(a, b) ==
  IF b = << >> THEN FALSE
  ELSE IF a = << >> THEN TRUE
  ELSE IF Head(a) # Head(b) THEN Head(a) < Head(b)
  ELSE CodeLess(Tail(a), Tail(b))

\* Object.keys(headers).sort()
RECURSIVE SortKeys(_)
SortKeys(keys) ==
  IF keys = {} THEN << >>
  ELSE LET first == CHOOSE k \in keys :
                      \A other \in keys \ {k} : CodeLess(k, other)
       IN << first >> \o SortKeys(keys \ {first})

\* The digests are kept symbolic: equal inputs give equal digests and
\* different inputs different ones.
Sha256(data) == [ sha256 |-> data ]
HmacSHA256(message, key) == [ hmac |-> message, key |-> key ]

\* now.toISOString().replace(/[:-]|\.\d{3}/g, ''): the ISO text without its
\* separators and milliseconds.
AmzDate(now) == SubSeq(IsoFields(now), 1, 4)

\* Variant: the date stamp is taken from a second reading of the clock, one
\* millisecond after the first.
DateStampSecondRead(now) == SubSeq(IsoFields(now + 1), 1, 1)

\* now.toISOString().slice(0, 10).replace(/-/g, ''): the date of the ISO text.
DateStamp(now) == SubSeq(IsoFields(now), 1, 1)

\* The first eight characters of an x-amz-date value: its date.
DatePart(amzDate) == SubSeq(amzDate, 1, 1)

\* The headers object after getAwsSignature has set its two headers in it.
WithAmzHeaders(headers, amzDate, payloadHash) ==
  [ name \in DOMAIN headers \cup { XAmzDate, XAmzContentSha256 } |->
      IF name = XAmzDate THEN Val(0, amzDate, 0)
      ELSE IF name = XAmzContentSha256 THEN Val(0, payloadHash, 0)
      ELSE headers[name] ]

\* canonicalHeaders: one name:value line per header, in sortedHeaders order.
CanonicalHeaders(headers) ==
  LET sortedHeaders == SortKeys(DOMAIN headers)
  IN [ i \in 1 .. Len(sortedHeaders) |->
         << ToLowerCase(sortedHeaders[i]), Trim(headers[sortedHeaders[i]]) >> ]

\* signedHeaders: the lower-cased names, in sortedHeaders order.
SignedHeaders(headers) ==
  LET sortedHeaders == SortKeys(DOMAIN headers)
  IN [ i \in 1 .. Len(sortedHeaders) |-> ToLowerCase(sortedHeaders[i]) ]

NoSignature == [ authorization |-> << >>, headers |-> << >> ]

\* getAwsSignature with the clock reading now, default region and service.
GetAwsSignature(method, path, query, headers, payload, accessKey, secretKey, now) ==
  LET dateStamp == DateStamp(now)
      amzDate == AmzDate(now)
      payloadHash == Sha256(payload)
      allHeaders == WithAmzHeaders(headers, amzDate, payloadHash)
      canonicalHeaders == CanonicalHeaders(allHeaders)
      signedHeaders == SignedHeaders(allHeaders)
      canonicalRequest ==
        << method, path, query, canonicalHeaders, signedHeaders, payloadHash >>
      credentialScope == << dateStamp, "us-east-1", "s3", "aws4_request" >>
      stringToSign ==
        << "AWS4-HMAC-SHA256", amzDate, credentialScope,
           Sha256(canonicalRequest) >>
      kDate == HmacSHA256(dateStamp, << "AWS4", secretKey >>)
      kRegion == HmacSHA256("us-east-1", kDate)
      kService == HmacSHA256("s3", kRegion)
      kSigning == HmacSHA256("aws4_request", kService)
      signature == HmacSHA256(stringToSign, kSigning)
  IN [ authorization |->
         [ algorithm |-> "AWS4-HMAC-SHA256",
           credential |-> << accessKey, credentialScope >>,
           signedHeaders |-> signedHeaders,
           signature |-> signature ],
       headers |-> allHeaders ]

\* The headers of the PUT: the returned headers and the Authorization.
PutHeaders(signed) ==
  [ name \in DOMAIN signed.headers \cup { Authorization } |->
      IF name = Authorization THEN signed.authorization
      ELSE signed.headers[name] ]

\* The host of the endpoint, as configured and with a blank left after it.
HostValues ==
  { Val(0, "192.168.1.100:9000", 0), Val(0, "192.168.1.100:9000", 1) }

\* The headers uploadToMinio prepares for signing.
UploadHeaders(host) ==
  [ name \in { Host, ContentType } |->
      IF name = Host THEN host ELSE Val(0, "application/zstd", 0) ]

\* Header objects a caller can hand to the computation: uploadToMinio's, the
\* same with the content type named in lower case, and with the ACL header
\* of the Basic version added.
HeaderObjects ==
  UNION { { UploadHeaders(host),
            [ name \in { Host, ContentTypeLower } |->
                IF name = Host THEN host ELSE Val(0, "application/zstd", 0) ],
            [ name \in { Host, ContentType, XAmzAcl } |->
                IF name = Host THEN host
                ELSE IF name = XAmzAcl THEN Val(0, "public-read", 0)
                ELSE Val(0, "application/zstd", 0) ] } : host \in HostValues }

\* Payloads (by their sizes), secret keys and clock readings of the computations.
Payloads == { JsonSize(<< >>), JsonSize(MockIds) }
SecretKeys == { "minioadmin", "rotated" }
Instants == { ClockStart, ClockStart + 1 }

IdleSig ==
  [ pc |-> "idle", headers |-> << >>, payload |-> 0, secretKey |-> "",
    now |-> 0, out |-> NoSignature, sent |-> << >> ]

ReadySig(headers, payload, secretKey, now) ==
  [ pc |-> "ready", headers |-> headers, payload |-> payload,
    secretKey |-> secretKey, now |-> now, out |-> NoSignature,
    sent |-> << >> ]

\* uploadToMinio calls getAwsSignature for its PUT.
SignRequest(s) ==
  /\ sig[s].pc = "ready"
  /\ sig' = [sig EXCEPT ![s] =
       [ @ EXCEPT !.pc = "signed",
                  !.out = GetAwsSignature("PUT", "/products-data/file", "",
                            sig[s].headers, sig[s].payload, "minioadmin",
                            sig[s].secretKey, sig[s].now) ]]
  /\ UNCHANGED << schedVars, taskVars, minioImpl, up, clock, calc >>

\* uploadToMinio hands the PUT to fetch.
SendPut(s) ==
  /\ sig[s].pc = "signed"
  /\ sig' = [sig EXCEPT ![s] =
       [ @ EXCEPT !.pc = "sent", !.sent = PutHeaders(sig[s].out) ]]
  /\ UNCHANGED << schedVars, taskVars, minioImpl, up, clock, calc >>

\* ------------------------------------------------------ ratio operation

\* Largest operand the ratio operation is tried with.
MaxSize == 9

\* A double that is a number: not NaN and not an infinity. A fraction with
\* denominator 0 stands for what the division of doubles gives then.
IsFiniteNumber(x) == x.den # 0

IdleCalc ==
  [ pc |-> "idle", originalSize |-> 0, compressedSize |-> 0,
    out |-> RatZero, rejected |-> FALSE ]

\* ZstdModule.getCompressionRatio resolved: the division of two doubles
\* raises no exception, so the promise is resolved with its result.
RatioNative ==
  /\ calc.pc = "ready"
  /\ calc' = [ calc EXCEPT !.pc = "native",
                 !.out = CompressionRatio(calc.originalSize,
                                          calc.compressedSize) ]
  /\ UNCHANGED << schedVars, taskVars, minioImpl, up, clock, sig >>

\* compressAndUpload's inline division.
RatioInline ==
  /\ calc.pc = "ready"
  /\ calc' = [ calc EXCEPT !.pc = "inline",
                 !.out = UploadRatio(calc.originalSize, calc.compressedSize) ]
  /\ UNCHANGED << schedVars, taskVars, minioImpl, up, clock, sig >>

\* Nothing of the object-store service is in use.
InitMinioIdle ==
  /\ minioImpl = "sigv4"
  /\ up = [u \in Uploads |-> IdleUp]
  /\ clock = ClockStart
  /\ sig = [s \in Signers |-> IdleSig]
  /\ calc = IdleCalc

InitTaskIdle ==
  /\ codec \in CodecGains
  /\ ipc = "idle"
  /\ pipe = [r \in Runners |-> IdlePipe]
  /\ run = [r \in RunIds |-> IdleRun]
  /\ mpc = "idle"

\* The scheduler as a configure(Config(p)) that ran alone leaves it.
InitConfiguredBy(p) ==
  /\ isConfigured = TRUE
  /\ cpc = [q \in Callers |-> "idle"]
  /\ cout = [q \in Callers |-> IF q = p THEN "ok" ELSE "none"]
  /\ ctrace = [q \in Callers |->
       IF q = p
         THEN << Ev("configure", "", 0), Ev("isConfigured", "", 0),
                 Ev("scheduleTask", Config(p).taskId, 0) >>
         ELSE << >>]
  /\ ncalls = [q \in Callers |-> IF q = p THEN 1 ELSE 0]
  /\ hostReg = Config(p)
  /\ hostTasks = {ScheduleRequest(Config(p))}
  /\ regs = 1
  /\ spc = "idle"
  /\ sout = "none"
  /\ nstops = 0
  /\ cclean = [q \in Callers |-> q = p]
  /\ okSinceStop = TRUE

\* The app with the scheduler Unconfigured or Active, the store empty or
\* seeded by an earlier launch, and nothing in flight.
InitTask ==
  /\ InitSched \/ \E p \in Callers : InitConfiguredBy(p)
  /\ store \in { << >>, MockIds }
  /\ InitTaskIdle
  /\ InitMinioIdle

NextTask ==
  \/ InsertCount
  \/ InsertWrite
  \/ \E r \in RunIds : TaskFire(r)
  \/ \E r \in RunIds : TaskTimeout(r)
  \/ \E r \in RunIds : TaskResume(r)
  \/ ManualCall
  \/ ManualResume
  \/ \E r \in Runners : ExportFetch(r)
  \/ \E r \in Runners : ExportCompress(r)
  \/ \E r \in Runners : ExportRatio(r)
  \/ \E r \in Runners : ExportNet(r)
  \/ \E r \in Runners : ExportPost(r)
  \/ \E r \in Runners : ExportJson(r)
  \/ \E r \in Runners : ExportRecount(r)

SpecTask == InitTask /\ [][NextTask]_vars

\* Every step the environment or the JS event loop owes a running call is
\* eventually taken: pending promises settle and continuations run.
FairTask ==
  /\ \A r \in RunIds : WF_vars(TaskResume(r))
  /\ \A r \in Runners :
       /\ WF_vars(ExportFetch(r))
       /\ WF_vars(ExportCompress(r))
       /\ WF_vars(ExportRatio(r))
       /\ WF_vars(ExportNet(r))
       /\ WF_vars(ExportPost(r))
       /\ WF_vars(ExportJson(r))
       /\ WF_vars(ExportRecount(r))

FairSpecTask == SpecTask /\ FairTask

\* The periodic path alone: the host's invocations of the two callbacks, the
\* pipeline runs they start, and the seeding of the store.
NextRun ==
  \/ InsertCount
  \/ InsertWrite
  \/ \E r \in RunIds : TaskFire(r)
  \/ \E r \in RunIds : TaskTimeout(r)
  \/ \E r \in RunIds : TaskResume(r)
  \/ \E r \in RunIds : ExportFetch(r)
  \/ \E r \in RunIds : ExportCompress(r)
  \/ \E r \in RunIds : ExportRatio(r)
  \/ \E r \in RunIds : ExportNet(r)
  \/ \E r \in RunIds : ExportPost(r)
  \/ \E r \in RunIds : ExportJson(r)
  \/ \E r \in RunIds : ExportRecount(r)

FairSpecRun == InitTask /\ [][NextRun]_vars /\ FairTask

\* ------------------------------------------------------- specifications


Init ==
  /\ InitSched
  /\ store = << >>
  /\ InitTaskIdle
  /\ InitMinioIdle

Next ==
  \/ \E p \in Callers : ConfigureCall(p)
  \/ \E p \in Callers : ConfigureRegistered(p)
  \/ \E p \in Callers : ConfigureRejected(p)
  \/ \E p \in Callers : ConfigureScheduled(p)
  \/ \E p \in Callers : ConfigureScheduleRejected(p)
  \/ StopCall
  \/ StopResolved
  \/ StopRejected

Spec == Init /\ [][Next]_vars

\* The object-store service alone: compressAndUpload calls, overlapping or
\* not, of either version of the service, while the clock runs and the store
\* is being seeded.
InitMinio ==
  /\ InitSched
  /\ store \in { << >>, MockIds }
  /\ InitTaskIdle
  /\ minioImpl \in Impls
  /\ up = [u \in Uploads |-> IdleUp]
  /\ clock = ClockStart
  /\ sig = [s \in Signers |-> IdleSig]
  /\ calc = IdleCalc

NextMinio ==
  \/ InsertCount
  \/ InsertWrite
  \/ Tick
  \/ \E u \in Uploads : MinioCall(u)
  \/ \E u \in Uploads : MinioFetch(u)
  \/ \E u \in Uploads : MinioCompress(u)
  \/ \E u \in Uploads : MinioDataUri(u)
  \/ \E u \in Uploads : MinioBlob(u)
  \/ \E u \in Uploads : MinioPut(u)
  \/ \E u \in Uploads : MinioText(u)
  \/ \E u \in Uploads : MinioRecount(u)
  \/ \E u \in Uploads : MinioReturn(u)

SpecMinio == InitMinio /\ [][NextMinio]_vars

\* The whole app in use: the host's periodic invocations and the manual sync,
\* which may overlap each other, and uploads to the object store made while
\* no other pipeline run is in flight. The store has been seeded or not, and
\* nothing else writes to it.
InitApp ==
  /\ InitSched \/ \E p \in Callers : InitConfiguredBy(p)
  /\ store \in { << >>, MockIds }
  /\ InitTaskIdle
  /\ minioImpl \in Impls
  /\ up = [u \in Uploads |-> IdleUp]
  /\ clock = ClockStart
  /\ sig = [s \in Signers |-> IdleSig]
  /\ calc = IdleCalc

\* No compressAndUpload call is in flight.
NoUploadInFlight == \A u \in Uploads : up[u].pc = "idle"

\* No exportAndUpload call is in flight.
NoExportInFlight ==
  /\ mpc # "running"
  /\ \A r \in RunIds : run[r].cb # "running"

NextApp ==
  \/ \E r \in RunIds : NoUploadInFlight /\ TaskFire(r)
  \/ \E r \in RunIds : TaskTimeout(r)
  \/ \E r \in RunIds : TaskResume(r)
  \/ NoUploadInFlight /\ ManualCall
  \/ ManualResume
  \/ \E r \in Runners : ExportFetch(r)
  \/ \E r \in Runners : ExportCompress(r)
  \/ \E r \in Runners : ExportRatio(r)
  \/ \E r \in Runners : ExportNet(r)
  \/ \E r \in Runners : ExportPost(r)
  \/ \E r \in Runners : ExportJson(r)
  \/ \E r \in Runners : ExportRecount(r)
  \/ \E u \in Uploads : NoUploadInFlight /\ NoExportInFlight /\ MinioCall(u)
  \/ \E u \in Uploads : MinioFetch(u)
  \/ \E u \in Uploads : MinioCompress(u)
  \/ \E u \in Uploads : MinioDataUri(u)
  \/ \E u \in Uploads : MinioBlob(u)
  \/ \E u \in Uploads : MinioPut(u)
  \/ \E u \in Uploads : MinioText(u)
  \/ \E u \in Uploads : MinioRecount(u)
  \/ \E u \in Uploads : MinioReturn(u)

SpecApp == InitApp /\ [][NextApp]_vars

\* getAwsSignature as a function: two computations, each on inputs of its
\* own, and the PUT made with each result.
InitSign ==
  /\ InitSched
  /\ store = << >>
  /\ InitTaskIdle
  /\ minioImpl = "sigv4"
  /\ up = [u \in Uploads |-> IdleUp]
  /\ clock = ClockStart
  /\ sig \in [ Signers ->
       { ReadySig(headers, payload, secretKey, now) :
           headers \in HeaderObjects, payload \in Payloads,
           secretKey \in SecretKeys, now \in Instants } ]
  /\ calc = IdleCalc

NextSign ==
  \/ \E s \in Signers : SignRequest(s)
  \/ \E s \in Signers : SendPut(s)

SpecSign == InitSign /\ [][NextSign]_vars

\* The ratio operation as a function of its two operands.
InitRatio ==
  /\ InitSched
  /\ store = << >>
  /\ InitTaskIdle
  /\ minioImpl = "sigv4"
  /\ up = [u \in Uploads |-> IdleUp]
  /\ clock = ClockStart
  /\ sig = [s \in Signers |-> IdleSig]
  /\ calc \in { [ IdleCalc EXCEPT !.pc = "ready", !.originalSize = a,
                                  !.compressedSize = b ] :
                  a \in 0 .. MaxSize, b \in 0 .. MaxSize }

NextRatio == RatioNative \/ RatioInline

SpecRatio == InitRatio /\ [][NextRatio]_vars

\* ------------------------------------------------------------------ claims

\* C1: however configure() calls interleave, the host accepts at most one
\* registration between two consecutive stops.
C1_AtMostOneRegistration == regs <= 1

\* C2: once a configure() has returned normally with no stop() since it was
\* called, the flag is set; and a configure() called while the flag is set
\* returns at once as a no-op: it hands nothing to the host, the flag stays
\* set, and the host's callbacks, tasks and registrations are untouched.
C2_ConfigureWhileActiveIsNoOp ==
  /\ [](okSinceStop => isConfigured)
  /\ [][\A p \in Callers :
          (isConfigured /\ ncalls'[p] = ncalls[p] + 1)
            => /\ cpc'[p] = "idle"
               /\ cout'[p] = "noop"
               /\ isConfigured'
               /\ UNCHANGED << hostReg, hostTasks, regs >>]_vars

\* A second configure() ended as a no-op after the first one completed; the
\* host still holds the first call's config and task id only.
C2_Witness ==
  \E p, q \in Callers :
    /\ p # q
    /\ okSinceStop
    /\ cout[q] = "ok"
    /\ cout[p] = "noop"
    /\ hostReg = Config(q)
    /\ hostTasks = {ScheduleRequest(Config(q))}
    /\ Config(p).taskId # Config(q).taskId

\* C3: a configure() that started Unconfigured and returned normally has, in
\* this order, registered the callbacks with the host, set the flag, and
\* requested exactly one periodic run of config.taskId with delay 0.
C3_ConfigureOrder ==
  \A p \in Callers :
    cout[p] = "ok" =>
      ctrace[p] = << Ev("configure", "", 0),
                     Ev("isConfigured", "", 0),
                     Ev("scheduleTask", Config(p).taskId, 0) >>

C3_Witness ==
  \E p \in Callers : cout[p] = "ok" /\ Len(ctrace[p]) = 3

\* C6 as stated: whenever a stop() returns, the flag is cleared.
C6_StopAlwaysUnconfigures ==
  [][nstops' = nstops + 1 => ~isConfigured']_vars

\* C6 amended: a stop() whose host deregistration succeeded leaves the flag
\* cleared whatever it was; one whose deregistration failed leaves the flag
\* and the host as they were; stop() never raises; a stop() on a stopped
\* scheduler changes nothing; a configure() called while the flag is cleared
\* goes to the host for a registration.
C6_StopAmended ==
  /\ [](sout # "threw")
  /\ [][(nstops' = nstops + 1 /\ sout' = "stopped")
          => (~isConfigured' /\ hostReg' = NoConfig /\ hostTasks' = {})]_vars
  /\ [][(nstops' = nstops + 1 /\ sout' = "logged")
          => UNCHANGED << isConfigured, hostReg, hostTasks >>]_vars
  /\ [][(nstops' = nstops + 1 /\ ~isConfigured /\ hostReg = NoConfig
           /\ hostTasks = {})
          => (~isConfigured' /\ hostReg' = NoConfig /\ hostTasks' = {})]_vars
  /\ [][\A p \in Callers :
          (~isConfigured /\ ncalls'[p] = ncalls[p] + 1)
            => cpc'[p] = "awaitConfigure"]_vars

\* Two stop() calls returned, the last one deregistered, and a configure()
\* called after it has registered again.
C6_Witness ==
  /\ nstops = 2
  /\ sout = "stopped"
  /\ \E p \in Callers :
       /\ cclean[p]
       /\ cpc[p] = "awaitSchedule"
       /\ regs = 1
       /\ isConfigured

\* The host was signalled finish by the run callback of this invocation.
FinishedByRun(rn) == \E i \in 1 .. Len(rn.signals) : rn.signals[i] = "run"

\* C4: every invocation of the run callback is eventually followed by the
\* callback's finish signal for that invocation, once its pipeline call
\* settles, however it settles.
C4_RunEventuallyFinishes ==
  \A r \in RunIds : (run[r].cb = "running") ~> FinishedByRun(run[r])

\* An invocation whose pipeline returned a failure result was finished.
C4_Witness ==
  \E r \in RunIds : run[r].saw = "failure" /\ FinishedByRun(run[r])

\* C5: the step in which the host's timeout callback runs for an invocation
\* signals finish in that same step and touches no pipeline run: no store
\* read, compression or delivery request is started, and the run in flight
\* stays where it is; the store is untouched too.
C5_TimeoutOnlyFinishes ==
  [][\A r \in RunIds :
       (~TimedOut(run[r]) /\ TimedOut(run'[r]))
         => /\ run'[r].signals = Append(run[r].signals, "timeout")
            /\ run'[r].cb = run[r].cb
            /\ pipe' = pipe
            /\ store' = store]_vars

\* After its timeout an invocation's pipeline is still in flight, has not
\* posted yet, and its next step can be taken.
C5_Witness ==
  \E r \in RunIds :
    /\ TimedOut(run[r])
    /\ run[r].cb = "running"
    /\ pipe[r].pc = "net"
    /\ pipe[r].posts = 0
    /\ ENABLED ExportNet(r)

\* C7: triggerManualSync ends only when its one pipeline run has settled; it
\* throws exactly when the result has success = false and returns otherwise;
\* no step of it changes the registration flag or the host's registry.
C7_ManualSync ==
  /\ [][(mpc = "running" /\ mpc' # "running")
          => /\ pipe[Manual].pc = "done"
             /\ pipe[Manual].starts = 1
             /\ mpc' \in {"returned", "threw"}
             /\ (mpc' = "threw") <=> ~pipe[Manual].res.success]_vars
  /\ [][(mpc' # mpc \/ pipe'[Manual] # pipe[Manual])
          => UNCHANGED << isConfigured, hostReg, hostTasks >>]_vars
  /\ [](mpc \in {"returned", "threw"} => pipe[Manual].starts = 1)

\* A manual sync threw while the scheduler was Active.
C7_Witness ==
  mpc = "threw" /\ isConfigured /\ pipe[Manual].starts = 1

\* C8: the run callback never ends by throwing; when it has returned, its
\* last act was the finish signal.
C8_RunCallbackNeverThrows ==
  \A r \in RunIds :
    /\ run[r].cb # "threw"
    /\ run[r].cb = "returned" =>
         /\ Len(run[r].signals) > 0
         /\ run[r].signals[Len(run[r].signals)] = "run"

\* A run callback returned normally after a failed pipeline run.
C8_Witness ==
  \E r \in RunIds :
    run[r].cb = "returned" /\ run[r].saw = "failure" /\ ~TimedOut(run[r])

\* C9: exportAndUpload never raises; when a step failed, the result has
\* success = false, an error message, and sizes, ratio and record count 0;
\* when none failed the result has success = true.
C9_ExportNeverRaises ==
  \A r \in Runners :
    pipe[r].pc = "done" =>
      /\ ~pipe[r].res.raised
      /\ pipe[r].failedAt = "none" => pipe[r].res.success
      /\ pipe[r].failedAt # "none" =>
           /\ ~pipe[r].res.success
           /\ pipe[r].res.error \notin {"", "none"}
           /\ pipe[r].res.compressedSize = 0
           /\ pipe[r].res.originalSize = 0
           /\ pipe[r].res.compressionRatio = RatZero
           /\ pipe[r].res.recordCount = 0

\* A run whose last step, the record count, failed after sizes and ratio had
\* been computed and the artifact delivered.
C9_Witness ==
  \E r \in Runners :
    /\ pipe[r].pc = "done"
    /\ pipe[r].failedAt = "recount"
    /\ ResponseOk(pipe[r].resp)

\* C10: a pipeline run that got a 2xx answer (store readable, N records) has
\* success = true and recordCount = N; one that got 500 has success = false
\* and an error.
C10_SuccessOn2xx ==
  \A r \in Runners :
    (pipe[r].pc = "done" /\ pipe[r].failedAt # "recount") =>
      /\ pipe[r].resp.status \in {200, 204} =>
           /\ pipe[r].res.success
           /\ pipe[r].snap = Len(store) => pipe[r].res.recordCount = Len(store)
      /\ pipe[r].resp.status = 500 =>
           /\ ~pipe[r].res.success
           /\ pipe[r].res.error \notin {"", "none"}

\* C11: in a generic delivery the POST is issued only in the step in which
\* the reachability check has answered, and never before it; a call whose
\* check answered "not connected" (or failed) ends as a failure of
\* sendToExternalAPI with no POST issued and no response received.
C11_NetworkCheckBeforePost ==
  /\ [][\A r \in Runners :
          pipe'[r].posts > pipe[r].posts
            => (pipe[r].pc = "net" /\ pipe'[r].pc = "post")]_vars
  /\ [](\A r \in Runners :
          pipe[r].pc \in {"fetch", "compress", "ratio", "net"}
            => pipe[r].posts = 0)
  /\ [](\A r \in Runners :
          (pipe[r].pc = "done" /\ pipe[r].failedAt = "net")
            => /\ pipe[r].posts = 0
               /\ pipe[r].resp = NoResponse
               /\ ~pipe[r].res.success)

\* A call ended because the device was reported not connected.
C11_Witness ==
  \E r \in Runners :
    /\ pipe[r].pc = "done"
    /\ pipe[r].failedAt = "net"
    /\ pipe[r].res.error = "API send failed: No network connection"
    /\ pipe[r].comps = 1

\* C12: no retries. One call of exportAndUpload issues at most one POST and
\* one call of compressAndUpload at most one PUT; a periodic invocation and a
\* manual trigger each run the pipeline once; and the step in which a
\* periodic run ends, failed or not, asks the host for no further run,
\* starts no pipeline run and touches no other invocation.
C12_NoRetries ==
  /\ [](\A r \in Runners : pipe[r].posts <= 1 /\ pipe[r].starts <= 1)
  /\ [](\A u \in Uploads : up[u].puts <= 1)
  /\ [][\A r \in RunIds :
          (run[r].cb = "running" /\ run'[r].cb # "running")
            => /\ hostTasks' = hostTasks
               /\ \A q \in Runners : pipe'[q].starts = pipe[q].starts
               /\ \A q \in RunIds \ {r} : run'[q] = run[q]
               /\ up' = up]_vars

\* A periodic run has ended in failure after its one POST was refused, and an
\* upload made later has ended in failure after its one PUT.
C12_Witness ==
  /\ \E r \in RunIds :
       /\ run[r].cb = "returned"
       /\ run[r].saw = "failure"
       /\ pipe[r].starts = 1
       /\ hostTasks = {ScheduleRequest(hostReg)}
  /\ \E u \in Uploads :
       /\ up[u].pc = "done"
       /\ up[u].failedAt = "put"
       /\ up[u].puts = 1

\* C13: no step of a periodic run, of a manual sync or of an upload to the
\* object store changes the Record Store, whatever the runs' interleaving.
C13_PipelineReadOnly == [][store' = store]_vars

\* A manual run and a periodic run overlap on a seeded store, each having
\* issued both of its store reads.
C13_Witness ==
  /\ store = MockIds
  /\ mpc = "running"
  /\ pipe[Manual].reads = 2
  /\ \E r \in RunIds :
       /\ run[r].cb = "running"
       /\ pipe[r].reads = 2
       /\ pipe[r].snap = Len(MockIds)

\* C14: while the Record Store is empty, a pipeline run that has read it
\* holds the two-byte JSON text [] (originalSize = 2) and has invoked the
\* codec on it; once the reachability check has passed the POST has been
\* issued; and a successful result reports originalSize = 2, the size of the
\* codec's output for that text, and recordCount = 0.
C14_EmptyStoreExport ==
  \A r \in Runners :
    store = << >> =>
      /\ pipe[r].pc \in {"compress", "ratio", "net", "post", "json", "recount"}
           => (pipe[r].snap = 0 /\ pipe[r].osize = 2 /\ pipe[r].comps = 1)
      /\ pipe[r].pc \in {"post", "json", "recount"} => pipe[r].posts = 1
      /\ (pipe[r].pc = "done" /\ pipe[r].res.success)
           => /\ pipe[r].res.originalSize = 2
              /\ pipe[r].res.compressedSize = B64Len(CodecOutLen(2))
              /\ pipe[r].res.compressedSize > 0
              /\ pipe[r].res.recordCount = 0
              /\ pipe[r].comps = 1
              /\ pipe[r].posts = 1

\* A run on the empty store ended with success.
C14_Witness ==
  \E r \in Runners :
    /\ store = << >>
    /\ pipe[r].pc = "done"
    /\ pipe[r].res.success
    /\ pipe[r].res.recordCount = 0
    /\ pipe[r].resp.status = 200

\* C15: a call holds an artifact of exportProductsToZstd or of
\* compressProductsToZstd only after its store read and its codec call have
\* both succeeded, and the artifact is then the whole, non-empty output of
\* the codec for the snapshot's JSON text; when the read or the codec call
\* failed, the call ends with the error raised for it, whose message names
\* the cause, and nothing has been delivered.
C15_ArtifactOnlyOnSuccess ==
  /\ \A r \in Runners :
       /\ pipe[r].pc \in {"ratio", "net", "post", "json", "recount"}
            => /\ pipe[r].reads >= 1 /\ pipe[r].comps = 1
               /\ pipe[r].osize = JsonSize(store)
               /\ pipe[r].csize = B64Len(CodecOutLen(pipe[r].osize))
               /\ pipe[r].csize > 0
       /\ (pipe[r].pc = "done" /\ pipe[r].failedAt = "fetch")
            => /\ pipe[r].res.error = "Export failed: StoreReadError"
               /\ pipe[r].comps = 0 /\ pipe[r].posts = 0
               /\ pipe[r].res.compressedSize = 0
       /\ (pipe[r].pc = "done" /\ pipe[r].failedAt = "compress")
            => /\ pipe[r].res.error = "Export failed: CodecError"
               /\ pipe[r].posts = 0
               /\ pipe[r].res.compressedSize = 0
  /\ \A u \in Uploads :
       /\ up[u].pc \in {"datauri", "blob", "put", "text", "recount"}
            => /\ up[u].reads >= 1 /\ up[u].comps = 1
               /\ up[u].osize = JsonSize(store)
               /\ up[u].size = CodecOutLen(up[u].osize)
               /\ up[u].size > 0
       /\ (up[u].pc = "done" /\ up[u].failedAt = "fetch")
            => /\ up[u].res.error = "Compression failed: StoreReadError"
               /\ up[u].comps = 0 /\ up[u].puts = 0
               /\ "size" \notin up[u].res.fields
       /\ (up[u].pc = "done" /\ up[u].failedAt = "compress")
            => /\ up[u].res.error = "Compression failed: CodecError"
               /\ up[u].puts = 0
               /\ "size" \notin up[u].res.fields

\* A periodic run ended because the codec rejected, while a manual run holds
\* the artifact the codec gave it.
C15_Witness ==
  /\ pipe[Manual].pc = "net"
  /\ pipe[Manual].csize > 0
  /\ \E r \in RunIds :
       /\ pipe[r].pc = "done"
       /\ pipe[r].failedAt = "compress"
       /\ pipe[r].res.error = "Export failed: CodecError"
       /\ pipe[r].comps = 1

\* C16: a compressAndUpload call never ends by raising. Its result, and the
\* result of the uploadToMinio call inside it, has success = true only after
\* a 2xx answer to the PUT; after another answer, a rejected request, or a
\* failed store read or codec call it has success = false and an error
\* message, and holds neither recordCount nor compressionRatio (nor any
\* other field of a successful upload).
C16_UploadNeverRaises ==
  \A u \in Uploads :
    /\ ~up[u].res.raised
    /\ up[u].res.success => ResponseOk(up[u].resp)
    /\ up[u].pc = "recount" =>
         /\ up[u].res = UploadSuccess(up[u].fileName, up[u].size)
         /\ up[u].puts = 1
    /\ up[u].pc = "done" =>
         /\ up[u].failedAt = "none" <=> up[u].res.success
         /\ ~ResponseOk(up[u].resp) => ~up[u].res.success
         /\ up[u].res.success =>
              up[u].res.fields = {"success", "url", "fileName", "size",
                                  "recordCount", "compressionRatio"}
         /\ ~up[u].res.success =>
              /\ up[u].res.fields = {"success", "error"}
              /\ up[u].res.error \notin {"", "none"}

\* One upload was refused by the object store and another, in flight with
\* it, lost its request to a network error.
C16_Witness ==
  \E u, v \in Uploads :
    /\ u # v
    /\ up[u].pc = "done"
    /\ up[u].resp.status = 403
    /\ ~up[u].res.success
    /\ up[v].pc = "done"
    /\ up[v].failedAt = "put"
    /\ up[v].resp = NoResponse
    /\ up[v].res.error = "Network request failed"

\* The canonical headers a signature was computed over.
SignedCanonicalHeaders(out) == out.authorization.signature.hmac[4].sha256[4]

SigInputs(s) ==
  << sig[s].headers, sig[s].payload, sig[s].secretKey, sig[s].now >>

C19_FileNames ==
  /\ \A t1, t2 \in ClockStart .. clock :
       t1 < t2 =>
         /\ GenerateFileName(t1).prefix = "products-"
         /\ GenerateFileName(t1).ext = ".zstd"
         /\ LexLess(GenerateFileName(t1).stamp, GenerateFileName(t2).stamp)
  /\ \A u, v \in Uploads :
       (u # v /\ up[u].fileName # NoName /\ up[v].fileName # NoName)
         => up[u].fileName # up[v].fileName

\* C20: the ratio operation, native or inline, gives compressedSize * 100 /
\* originalSize, and for originalSize = 0 it gives a number or signals an
\* error.
C20_RatioDefined ==
  calc.pc \in {"native", "inline"} =>
    /\ calc.out.num * calc.originalSize
         = calc.compressedSize * 100 * calc.out.den
    /\ calc.originalSize = 0 => (IsFiniteNumber(calc.out) \/ calc.rejected)

\* C21: the recordCount of every successful result is the number of records
\* of the snapshot that the run serialized and delivered.
C21_RecordCountIsSnapshot ==
  /\ \A r \in Runners :
       (pipe[r].pc = "done" /\ pipe[r].res.success)
         => pipe[r].res.recordCount = pipe[r].snap
  /\ \A u \in Uploads :
       (up[u].pc = "done" /\ up[u].res.success)
         => up[u].res.recordCount = up[u].snap

\* C22: a run whose result has success = false received no 2xx answer to a
\* delivery request.
C22_FailureMeansNotAccepted ==
  /\ \A r \in Runners :
       (pipe[r].pc = "done" /\ ~pipe[r].res.success)
         => ~ResponseOk(pipe[r].resp)
  /\ \A u \in Uploads :
       (up[u].pc = "done" /\ ~up[u].res.success)
         => ~ResponseOk(up[u].resp)

\* C23: the host is signalled finish at most once for each invocation of
\* the periodic task.
C23_FinishAtMostOnce ==
  \A r \in RunIds : Len(run[r].signals) <= 1

\* C24: the step in which a configure() call raises to its caller leaves
\* the scheduler Unconfigured.
C24_RaisedConfigureUnconfigured ==
  [][\A p \in Callers :
       (cpc[p] # "idle" /\ cout'[p] = "threw") => ~isConfigured']_vars

====
